---- MODULE Spec2Model ----
(***************************************************************************)
(* Model of connectome_manipulator/connectome_manipulation: conn_wiring.py, *)
(* connectome_manipulation.py and manipulation/null_manipulation.py.       *)
(*                                                                         *)
(* The specifications share the variables below.                           *)
(*                                                                         *)
(*   Spec        apply() as the file executes it: the argument checks, the *)
(*               source/target selection and the two returns of lines 62   *)
(*               and 69.                                                   *)
(*   SpecRewire  the per-target rewiring loop and the reconciliation that  *)
(*               the file holds at lines 73-202, behind the return of line *)
(*               69, together with assign_delays_from_model (205-229).     *)
(*               The names this block reads but the file never binds       *)
(*               (keep_indegree, syn_sel_idx, syn_del_idx, stats_dict,     *)
(*               per_mtype_dict, ...) are bound in InitRewire/ComputeProb. *)
(*   SpecCache   the same loop over three selected targets, in a circuit   *)
(*               whose inhibitory node projects to every excitatory node.  *)
(*   SpecMain    main() of connectome_manipulation.py from load_circuit to *)
(*               parquet_to_sonata, with the files it reads and writes.    *)
(*   SpecNull    one call of NullManipulation.apply.                       *)
(*                                                                         *)
(* An edge table is a sequence of rows (synapses); a row is a record       *)
(*   idx   the pandas row label           src   '@source_node'             *)
(*   tgt   '@target_node'                 pos   afferent_center_* (1-D)    *)
(*   prop  a non-morphological property   delay 'delay'                    *)
(* Lists of the code (numpy arrays) are sequences; numpy indices are kept  *)
(* 0-based, so x[i] of the code is x[i + 1] here.                          *)
(***************************************************************************)
EXTENDS Integers, Sequences, FiniteSets, TLC

\* ------------------------------------------------------------------ bounds
NumExc == 3
\* Largest number of synapses of an input edge table.
MaxRows == 3

\* Nodes 1..NumExc are excitatory, node NumExc + 1 is inhibitory; source and
\* target population are the same population.
NumNodes == NumExc + 1
Nodes == 1..NumNodes
ExcNodes == 1..NumExc

synapse_class(n) == IF n <= NumExc THEN "EXC" ELSE "INH"
\* Node properties of the circuit: soma position, m-type and layer.
NodePos(n) == n
mtype(n) == IF n <= 2 THEN "A" ELSE "B"
layer(n) == IF n = 2 THEN 2 ELSE 1

\* ------------------------------------------------------------ generic helpers
Abs(x) == IF x < 0 THEN -x ELSE x
Range(s) == {s[i] : i \in DOMAIN s}

RECURSIVE SortedSeq(_)
\* The elements of a finite set of integers in ascending order.
SortedSeq(S) ==
    IF S = {} THEN <<>>
    ELSE LET m == CHOOSE x \in S : \A y \in S : x <= y
         IN <<m>> \o SortedSeq(S \ {m})

\* np.where(mask)[0]: the 0-based positions where the mask is set, ascending.
Where(mask) == SortedSeq({i - 1 : i \in {j \in DOMAIN mask : mask[j]}})
\* table[mask]: the rows where the mask is set, in order.
RECURSIVE Filter(_, _)
Filter(t, mask) ==
    IF t = <<>> THEN <<>>
    ELSE (IF Head(mask) THEN <<Head(t)>> ELSE <<>>) \o Filter(Tail(t), Tail(mask))
NumTrue(mask) == Cardinality({j \in DOMAIN mask : mask[j]})
AllFalse(n) == [i \in 1..n |-> FALSE]

\* Sequences over S of length n without repeats.
DistinctSeqs(S, n) ==
    {s \in [1..n -> S] : \A i, j \in 1..n : i # j => s[i] # s[j]}

\* ------------------------------------------------------------ collaborators
\* Delay models, called as delay_model(syn_dist, 'min'): "lin" is the
\* LinDelayModel that model_building/delay.py builds, whose minimum is the same
\* at every distance; "dist" is a model whose minimum grows with the distance.
DelayModels == {"lin", "dist"}
DelayMin(model, dist) == IF model = "lin" THEN 1 ELSE 1 + dist
\* Width of the window above the minimum from which a delay draw is taken.
DelaySpread == 1
\* truncnorm(a=(d_min - d_mean) / d_std, b=inf, loc=d_mean, scale=d_std).rvs():
\* a sample of the normal distribution left-truncated at d_min.
truncnorm(d_min) == d_min..(d_min + DelaySpread)

\* Connection probability models (model_types.AbstractModel): the order is the
\* number of inputs plus one; a probability is "zero", "mid" (strictly between
\* 0 and 1), "one" or "nan".
PModels ==
    { [order |-> 1, kind |-> "mid"], [order |-> 2, kind |-> "dist"],
      [order |-> 6, kind |-> "mid"] }
\* The constant model ignores the pair; the distance-dependent model is certain
\* at distance 0, undecided at distance 1 and invalid beyond.
p_model_eval(m, s, t) ==
    IF m.order = 1 THEN m.kind
    ELSE LET d == Abs(NodePos(s) - NodePos(t))
         IN IF d = 0 THEN "one" ELSE IF d = 1 THEN "mid" ELSE "nan"

\* ------------------------------------------------------------- input tables
\* A connection (source, target) is numbered k = (target - 1) * NumNodes + source,
\* so ascending k is ascending (target, source).
NumPairs == NumExc * NumNodes
PairTgt(k) == ((k - 1) \div NumNodes) + 1
PairSrc(k) == ((k - 1) % NumNodes) + 1
\* The connections the circuit can hold: no autapses; the inhibitory node
\* projects to the last excitatory node only.
Projects(s, t) == s # t /\ (synapse_class(s) = "INH" => t = NumExc)
InputRow(i, k) ==
    [idx |-> i - 1, src |-> PairSrc(k), tgt |-> PairTgt(k),
     pos |-> ((i - 1) % 2) + 1, prop |-> IF i = 1 THEN 1 ELSE 0,
     delay |-> 1 + Abs((((i - 1) % 2) + 1) - NodePos(PairSrc(k)))]
\* Edge tables as edges.afferent_edges() delivers them: sorted by (target,
\* source), row labels 0..n-1, no autapses.
InputTablesOfLen(n) ==
    { [i \in 1..n |-> InputRow(i, ks[i])] :
        ks \in { f \in [1..n -> 1..NumPairs] :
                   /\ \A i \in 1..n : Projects(PairSrc(f[i]), PairTgt(f[i]))
                   /\ \A i \in 1..(n - 1) : f[i] <= f[i + 1] } }
InputTables == UNION {InputTablesOfLen(n) : n \in 0..MaxRows}
\* The same tables in a circuit whose inhibitory node projects to every
\* excitatory node.
CacheTablesOfLen(n) ==
    { [i \in 1..n |-> InputRow(i, ks[i])] :
        ks \in { f \in [1..n -> 1..NumPairs] :
                   /\ \A i \in 1..n : PairSrc(f[i]) # PairTgt(f[i])
                   /\ \A i \in 1..(n - 1) : f[i] <= f[i + 1] } }
CacheTables == UNION {CacheTablesOfLen(n) : n \in 0..MaxRows}

\* Largest number of selected target neurons.
MaxTargets == 2
\* Ascending, non-empty selections of target neurons of the split 1..NumExc.
TargetSelections ==
    {SortedSeq(S) : S \in {T \in SUBSET ExcNodes : T # {} /\ Cardinality(T) <= MaxTargets}}

VARIABLES
    pc,               \* position in apply()
    err,              \* the message of the error that ended apply(), or ""
    tgt_sel,          \* line 59: the random selection mask over the split's targets
    args,             \* the arguments of apply() that the checks read
    in_table,         \* the edge table apply() was called with
    edges_table,
    src_node_ids,     \* source candidates of the synapse class
    tgt_node_ids,     \* selected target neurons, ascending
    keep_indegree, p_model, d_model,
    tidx,             \* loop index into tgt_node_ids (1-based)
    p_src,
    syn_sel_idx, syn_sel_idx_tgt, num_sel,
    src, src_syn_idx, src_new,
    syn_del_idx, all_new_edges, per_mtype_dict, stats_dict,
    \* main() of connectome_manipulation.py
    manip_config,     \* the options main() reads
    circuit,          \* c = Circuit(sonata_config)
    files0,           \* the output files present when main() starts
    files,            \* the output files now
    popul_name, node_ids_split,
    i_split,          \* number of splits the loop of line 320 has completed
    parquet_file_list, N_syn_in, N_syn_out,
    edges_table_manip

vars == <<pc, err, tgt_sel, args, in_table, edges_table, src_node_ids, tgt_node_ids,
          keep_indegree, p_model, d_model, tidx, p_src,
          syn_sel_idx, syn_sel_idx_tgt, num_sel, src, src_syn_idx, src_new,
          syn_del_idx, all_new_edges, per_mtype_dict, stats_dict,
          manip_config, circuit, files0, files, popul_name, node_ids_split,
          i_split, parquet_file_list, N_syn_in, N_syn_out, edges_table_manip>>

\* The state of main(), which no step of apply() touches.
driver == <<manip_config, circuit, files0, files, popul_name, node_ids_split,
            i_split, parquet_file_list, N_syn_in, N_syn_out, edges_table_manip>>
\* main() has not been entered.
NoDriver ==
    /\ manip_config = <<>> /\ circuit = <<>> /\ files0 = <<>> /\ files = <<>>
    /\ popul_name = "None" /\ node_ids_split = <<>> /\ i_split = 0
    /\ parquet_file_list = <<>> /\ N_syn_in = <<>> /\ N_syn_out = <<>>
    /\ edges_table_manip = <<>>

config == <<tgt_sel, args, in_table, src_node_ids, tgt_node_ids, keep_indegree,
            p_model, d_model>>
percur == <<p_src, syn_sel_idx, syn_sel_idx_tgt, num_sel, src, src_syn_idx,
            src_new>>

tgt == tgt_node_ids[tidx]
\* Line 50: the rows whose source is a source candidate. Rewiring writes only
\* candidates into rows of this mask, so the mask of the input table stays the
\* mask of the current table.
syn_sel_idx_src == [i \in DOMAIN in_table |-> in_table[i].src \in Range(src_node_ids)]
\* The rows of the selected synapse class.
syn_sel_idx_type ==
    [i \in DOMAIN in_table |-> synapse_class(in_table[i].src) = args.syn_class]
\* Lines 64-65.
tgt_mtypes == [i \in DOMAIN tgt_node_ids |-> mtype(tgt_node_ids[i])]
tgt_layers == [i \in DOMAIN tgt_node_ids |-> layer(tgt_node_ids[i])]
StatKeys == {"num_syn_removed", "num_conn_removed", "num_syn_added",
             "num_conn_added", "num_syn_rewired", "num_conn_rewired"}
\* stats_dict[k] = [v]
StatSet(stats, k, v) == [stats EXCEPT ![k] = <<v>>]
\* stats_dict[k] = stats_dict.get(k, []) + [v]
StatAdd(stats, k, v) == [stats EXCEPT ![k] = Append(@, v)]

MTypes == {mtype(n) : n \in Nodes}
NoEntry == [cached |-> FALSE, syn_sel_idx_mtype |-> <<>>, num_syn_per_conn |-> <<>>]

\* The arguments under which the rewiring block is explored.
DefaultArgs ==
    [syn_class |-> "EXC", amount_pct |-> 100, prob_model_file |-> "ok",
     delay_model_file |-> "none", split_ids |-> ExcNodes]

\* The state in which the loop of line 75 is entered.
InitRewire ==
    /\ pc = "prob"
    /\ err = ""
    /\ tgt_sel = <<>>
    /\ args = DefaultArgs
    /\ in_table \in InputTables
    /\ edges_table = in_table
    /\ src_node_ids = SortedSeq(ExcNodes)
    /\ tgt_node_ids \in TargetSelections
    /\ keep_indegree \in BOOLEAN
    /\ p_model \in PModels
    /\ d_model \in {"none"} \cup DelayModels
    /\ tidx = 1
    /\ p_src = <<>>
    /\ syn_sel_idx = <<>> /\ syn_sel_idx_tgt = <<>> /\ num_sel = 0
    /\ src = <<>> /\ src_syn_idx = <<>> /\ src_new = <<>>
    /\ syn_del_idx = AllFalse(Len(in_table))
    /\ all_new_edges = <<>>
    /\ per_mtype_dict = [m \in MTypes |-> NoEntry]
    /\ stats_dict = [k \in StatKeys |-> <<>>]
    /\ NoDriver

\* Lines 75-105 with a row selection that leaves out the target.
ComputeProbAnyTarget ==
    /\ pc = "prob"
    /\ IF p_model.order \in 1..5
       THEN /\ p_src' = [i \in DOMAIN src_node_ids |->
                          IF p_model_eval(p_model, src_node_ids[i], tgt) = "nan"
                             \/ src_node_ids[i] = tgt
                          THEN "zero"
                          ELSE p_model_eval(p_model, src_node_ids[i], tgt)]
            /\ syn_sel_idx_tgt' = [i \in DOMAIN edges_table |-> edges_table[i].tgt = tgt]
            /\ syn_sel_idx' = syn_sel_idx_src
            /\ num_sel' = NumTrue(syn_sel_idx')
            /\ pc' = "resample"
            /\ err' = err
       ELSE /\ pc' = "error"
            /\ err' = "Model order not supported!"
            /\ UNCHANGED <<p_src, syn_sel_idx_tgt, syn_sel_idx, num_sel>>
    /\ UNCHANGED <<driver, config, edges_table, tidx, src, src_syn_idx, src_new,
                   syn_del_idx, all_new_edges, per_mtype_dict, stats_dict>>

\* Lines 75-105: the connection probability of every source candidate to the
\* current target, with invalid values and the autapse zeroed; and the row
\* selection of the current target.
\* Line 104 without line 105.
CleanProbNaNOnly(p, s, t) == IF p = "nan" THEN "zero" ELSE p
CleanProb(p, s, t) == IF p = "nan" \/ s = t THEN "zero" ELSE p
ComputeProb ==
    /\ pc = "prob"
    /\ IF p_model.order \in 1..5
       THEN /\ p_src' = [i \in DOMAIN src_node_ids |->
                          CleanProb(p_model_eval(p_model, src_node_ids[i], tgt),
                                    src_node_ids[i], tgt)]
            /\ syn_sel_idx_tgt' = [i \in DOMAIN edges_table |-> edges_table[i].tgt = tgt]
            /\ syn_sel_idx' = [i \in DOMAIN edges_table |->
                                 edges_table[i].tgt = tgt /\ syn_sel_idx_src[i]]
            /\ num_sel' = NumTrue(syn_sel_idx')
            /\ pc' = "resample"
            /\ err' = err
       ELSE /\ pc' = "error"
            /\ err' = "Model order not supported!"
            /\ UNCHANGED <<p_src, syn_sel_idx_tgt, syn_sel_idx, num_sel>>
    /\ UNCHANGED <<driver, config, edges_table, tidx, src, src_syn_idx, src_new,
                   syn_del_idx, all_new_edges, per_mtype_dict, stats_dict>>

\* np.unique(x, return_inverse=True) over the selected rows' sources.
UniqueSrc(t, mask) == SortedSeq({t[i].src : i \in {j \in DOMAIN t : mask[j]}})
IndexOf(s, x) == (CHOOSE i \in DOMAIN s : s[i] = x) - 1
InverseSrc(t, mask) ==
    LET sel == Filter(t, mask)
        u == UniqueSrc(t, mask)
    IN [i \in DOMAIN sel |-> IndexOf(u, sel[i].src)]

\* np.random.choice(src_node_ids, size=n, replace=False, p=p_src / sum(p_src)):
\* the possible outcomes, or {} when numpy raises (p is NaN after dividing by a
\* zero sum, or fewer non-zero entries than n).
Positive(ids, p) == {ids[i] : i \in {j \in DOMAIN ids : p[j] # "zero"}}
\* The same call with replace=True.
ChoiceWithReplace(ids, p, n) ==
    IF Positive(ids, p) = {} THEN {} ELSE [1..n -> Positive(ids, p)]
\* The same call without p.
ChoiceIgnoringP(ids, p, n) == DistinctSeqs(Range(ids), n)
ChoiceNoReplace(ids, p, n) ==
    IF Positive(ids, p) = {} THEN {} ELSE DistinctSeqs(Positive(ids, p), n)

\* src_node_ids[np.random.rand(len(src_node_ids)) < p_src]: rand() lies in
\* [0, 1), so "zero" is never selected and "one" always is.
BernoulliDraws(ids, p) ==
    { Filter(ids, m) :
        m \in { f \in [DOMAIN ids -> BOOLEAN] :
                  \A i \in DOMAIN ids : /\ p[i] = "zero" => ~f[i]
                                        /\ p[i] = "one" => f[i] } }

\* Lines 107-118.
Resample ==
    /\ pc = "resample"
    /\ src' = UniqueSrc(edges_table, syn_sel_idx)
    /\ src_syn_idx' = InverseSrc(edges_table, syn_sel_idx)
    /\ IF keep_indegree
       THEN IF Len(src_node_ids) < Len(src')
            THEN /\ src_new' = <<>>
                 /\ pc' = "error"
                 /\ err' = "Not enough source neurons available for rewiring!"
            ELSE IF ChoiceNoReplace(src_node_ids, p_src, Len(src')) = {}
            THEN /\ src_new' = <<>>
                 /\ pc' = "error"
                 /\ err' = "ValueError"
            ELSE /\ src_new' \in ChoiceNoReplace(src_node_ids, p_src, Len(src'))
                 /\ pc' = "rewire"
                 /\ err' = err
       ELSE /\ src_new' \in BernoulliDraws(src_node_ids, p_src)
            /\ pc' = "match"
            /\ err' = err
    /\ UNCHANGED <<driver, config, edges_table, tidx, p_src, syn_sel_idx, syn_sel_idx_tgt,
                   num_sel, syn_del_idx, all_new_edges, per_mtype_dict, stats_dict>>

\* ----------------------------------------------------- lines 120-126: shrink
\* The position (1-based) of row i among the rows of a mask.
Rank(mask, i) == Cardinality({j \in 1..i : mask[j]})
\* target[mask] = values
MaskAssign(target, mask, values) ==
    [i \in DOMAIN target |-> IF mask[i] THEN values[Rank(mask, i)] ELSE target[i]]
\* src_syn_idx > num_new
DelMaskStrict(idx, num_new) == [k \in DOMAIN idx |-> idx[k] > num_new]
\* src_syn_idx >= num_new
DelMask(idx, num_new) == [k \in DOMAIN idx |-> idx[k] >= num_new]
SelectLess(idx, num_new) == SelectSeq(idx, LAMBDA x : x < num_new)

ReconcileShrink ==
    /\ err' = err
    /\ pc = "match"
    /\ Len(src) > Len(src_new)
    /\ LET num_new == Len(src_new)
           del == MaskAssign(syn_del_idx, syn_sel_idx, DelMask(src_syn_idx, num_new))
       IN /\ syn_del_idx' = del
          /\ syn_sel_idx' = [i \in DOMAIN syn_sel_idx |-> syn_sel_idx[i] /\ ~del[i]]
          /\ stats_dict' =
               StatAdd(StatAdd(stats_dict, "num_syn_removed",
                               NumTrue(DelMask(src_syn_idx, num_new))),
                       "num_conn_removed", Len(src) - num_new)
          /\ src_syn_idx' = SelectLess(src_syn_idx, num_new)
    /\ pc' = "rewire"
    /\ UNCHANGED <<driver, config, edges_table, tidx, p_src, syn_sel_idx_tgt, num_sel, src,
                   src_new, all_new_edges, per_mtype_dict>>

\* Lines 173-175.
ReconcileEqual ==
    /\ err' = err
    /\ pc = "match"
    /\ Len(src) = Len(src_new)
    /\ pc' = "rewire"
    /\ UNCHANGED <<driver, config, edges_table, tidx, percur, syn_del_idx, all_new_edges,
                   per_mtype_dict, stats_dict>>

\* ------------------------------------------- lines 205-229: delay assignment
RECURSIVE Product(_)
\* The sequences that take their k-th element from the k-th set.
Product(sets) ==
    IF sets = <<>> THEN {<<>>}
    ELSE {<<x>> \o r : x \in Head(sets), r \in Product(Tail(sets))}

\* Line 218: the distance from the soma of the source assigned to the k-th
\* selected synapse to that synapse.
\* The same distance taken to the k-th source, without the expansion of the
\* sources to the synapses through src_syn_idx.
syn_dist_unpaired(row, new_src, idx, k) ==
    Abs(row.pos - NodePos(new_src[((k - 1) % Len(new_src)) + 1]))
syn_dist(row, new_src, idx, k) == Abs(row.pos - NodePos(new_src[idx[k] + 1]))

\* assign_delays_from_model without the return of lines 212-213: indexing the
\* empty arrays raises, so no table is left behind.
assign_delays_no_return(delay_model, table, new_src, idx, sel) ==
    IF Len(new_src) = 0 \/ Len(idx) = 0 \/ NumTrue(sel) = 0
    THEN {}
    ELSE LET rows == Filter(table, sel)
             draws == Product([k \in DOMAIN rows |->
                         truncnorm(DelayMin(delay_model,
                                            syn_dist(rows[k], new_src, idx, k)))])
         IN { [i \in DOMAIN table |->
                 IF sel[i] THEN [table[i] EXCEPT !.delay = d[Rank(sel, i)]]
                 ELSE table[i]] : d \in draws }

\* The edge tables assign_delays_from_model can leave behind.
assign_delays_from_model(delay_model, table, new_src, idx, sel) ==
    IF Len(new_src) = 0 \/ Len(idx) = 0 \/ NumTrue(sel) = 0
    THEN {table}
    ELSE LET rows == Filter(table, sel)
             draws == Product([k \in DOMAIN rows |->
                         truncnorm(DelayMin(delay_model,
                                            syn_dist(rows[k], new_src, idx, k)))])
         IN { [i \in DOMAIN table |->
                 IF sel[i] THEN [table[i] EXCEPT !.delay = d[Rank(sel, i)]]
                 ELSE table[i]] : d \in draws }

\* ------------------------------------------------------- lines 127-172: grow
\* x[-n:] and x[:n] of Python (x[-0:] is all of x).
\* x[:n] in the place of x[-n:].
LastNFromFront(s, n) == SubSeq(s, 1, n)
LastN(s, n) == IF n = 0 THEN s ELSE SubSeq(s, Len(s) - n + 1, Len(s))
\* x[-n:] in the place of x[:n].
FirstNFromBack(s, n) == SubSeq(s, Len(s) - n + 1, Len(s))
FirstN(s, n) == SubSeq(s, 1, n)
AllTrue(n) == [i \in 1..n |-> TRUE]

\* tgt_node_ids[tgt_mtypes == tgt_mtypes[tidx]] (and the same by layer).
TgtsLike(labels) ==
    {tgt_node_ids[i] : i \in {j \in DOMAIN tgt_node_ids : labels[j] = labels[tidx]}}
\* np.logical_and(syn_sel_idx_type, np.isin(edges_table['@target_node'], tgts))
DonorMask(tgts) ==
    [i \in DOMAIN edges_table |-> syn_sel_idx_type[i] /\ edges_table[i].tgt \in tgts]
\* Line 140 alone: the donors by layer.
DonorMaskByLayer == DonorMask(TgtsLike(tgt_layers))
\* Lines 138-140: the donors by m-type, or by layer when there are none.
DonorMaskFresh ==
    IF NumTrue(DonorMask(TgtsLike(tgt_mtypes))) = 0
    THEN DonorMask(TgtsLike(tgt_layers))
    ELSE DonorMask(TgtsLike(tgt_mtypes))
\* Line 142: np.unique(rows[['@source_node', '@target_node']], axis=0,
\* return_counts=True): the synapse count of every donor connection, in
\* ascending (source, target) order.
ConnCode(row) == row.src * (NumNodes + 1) + row.tgt
CountPerConn(t, mask) ==
    LET rows == Filter(t, mask)
        codes == SortedSeq({ConnCode(rows[i]) : i \in DOMAIN rows})
    IN [k \in DOMAIN codes |->
          Cardinality({i \in DOMAIN rows : ConnCode(rows[i]) = codes[k]})]
\* Lines 134-143: the cache entry of the current target's m-type.
DonorEntry ==
    IF per_mtype_dict[tgt_mtypes[tidx]].cached
    THEN per_mtype_dict[tgt_mtypes[tidx]]
    ELSE [cached |-> TRUE, syn_sel_idx_mtype |-> DonorMaskFresh,
          num_syn_per_conn |-> CountPerConn(edges_table, DonorMaskFresh)]

RECURSIVE ExpandFrom(_, _)
\* Line 145: np.concatenate([[i] * n for i, n in enumerate(nsyn)]).
ExpandFrom(nsyn, i) ==
    IF nsyn = <<>> THEN <<>>
    ELSE [k \in 1..Head(nsyn) |-> i] \o ExpandFrom(Tail(nsyn), i + 1)
Expand(nsyn) == ExpandFrom(nsyn, 0)

\* Lines 153-161: the duplicated rows with the per-connection property values
\* and the new sources broadcast through the synapse-to-connection mapping.
\* The duplicated rows with the new sources only (lines 153 and 161, without
\* the loop of lines 157-158).
NewEdgesUnsampled(table, sel_dupl, syn_conn_idx, propv, delv, src_gen) ==
    [k \in DOMAIN sel_dupl |->
       [table[sel_dupl[k] + 1] EXCEPT !.src = src_gen[syn_conn_idx[k] + 1]]]
NewEdges(table, sel_dupl, syn_conn_idx, propv, delv, src_gen) ==
    [k \in DOMAIN sel_dupl |->
       [table[sel_dupl[k] + 1] EXCEPT !.prop = propv[syn_conn_idx[k] + 1],
                                      !.delay = delv[syn_conn_idx[k] + 1],
                                      !.src = src_gen[syn_conn_idx[k] + 1]]]

ReconcileGrow ==
    /\ pc = "match"
    /\ Len(src) < Len(src_new)
    /\ LET num_src == Len(src)
           num_gen_conn == Len(src_new) - num_src
           src_gen == LastN(src_new, num_gen_conn)
           entry == DonorEntry
           donors == Filter(edges_table, entry.syn_sel_idx_mtype)
           pool == IF num_sel > 0 THEN Where(syn_sel_idx) ELSE Where(syn_sel_idx_tgt)
       IN IF NumTrue(entry.syn_sel_idx_mtype) = 0
          THEN /\ pc' = "error"
               /\ err' = "No synapses to sample connection property values from!"
               /\ UNCHANGED <<src_new, per_mtype_dict, stats_dict, all_new_edges>>
          ELSE IF pool = <<>>
          THEN /\ pc' = "error"
               /\ err' = "ValueError"
               /\ UNCHANGED <<src_new, per_mtype_dict, stats_dict, all_new_edges>>
          ELSE /\ err' = err
               /\ src_new' = FirstN(src_new, num_src)
               /\ per_mtype_dict' = [per_mtype_dict EXCEPT ![tgt_mtypes[tidx]] = entry]
               /\ \E nsyn \in [1..num_gen_conn -> Range(entry.num_syn_per_conn)] :
                    LET syn_conn_idx == Expand(nsyn) IN
                    \E sel_dupl \in [DOMAIN syn_conn_idx -> Range(pool)],
                       propv \in [1..num_gen_conn -> {r.prop : r \in Range(donors)}],
                       delv \in [1..num_gen_conn -> {r.delay : r \in Range(donors)}] :
                      LET new_edges == NewEdges(edges_table, sel_dupl, syn_conn_idx,
                                                propv, delv, src_gen) IN
                      /\ stats_dict' =
                           StatAdd(StatAdd(stats_dict, "num_syn_added", Len(syn_conn_idx)),
                                   "num_conn_added", Len(src_gen))
                      /\ \E ne \in (IF d_model # "none"
                                    THEN assign_delays_from_model(d_model, new_edges, src_gen,
                                             syn_conn_idx, AllTrue(Len(new_edges)))
                                    ELSE {new_edges}) :
                           all_new_edges' = all_new_edges \o ne
               /\ pc' = "rewire"
    /\ UNCHANGED <<driver, config, edges_table, tidx, p_src, syn_sel_idx, syn_sel_idx_tgt,
                   num_sel, src, src_syn_idx, syn_del_idx>>

\* ------------------------------------------------- lines 177-184: rewiring
\* edges_table.loc[syn_sel_idx, '@source_node'] = src_new[src_syn_idx]
\* The same assignment into the '@target_node' column.
RelabelTargets(table, mask, new_src, idx) ==
    [i \in DOMAIN table |->
       IF mask[i] THEN [table[i] EXCEPT !.tgt = new_src[idx[Rank(mask, i)] + 1]]
       ELSE table[i]]
RelabelSources(table, mask, new_src, idx) ==
    [i \in DOMAIN table |->
       IF mask[i] THEN [table[i] EXCEPT !.src = new_src[idx[Rank(mask, i)] + 1]]
       ELSE table[i]]

Rewire ==
    /\ err' = err
    /\ pc = "rewire"
    /\ edges_table' = RelabelSources(edges_table, syn_sel_idx, src_new, src_syn_idx)
    /\ stats_dict' = StatAdd(StatAdd(stats_dict, "num_syn_rewired", Len(src_syn_idx)),
                             "num_conn_rewired", Len(src_new))
    /\ pc' = "delays"
    /\ UNCHANGED <<driver, config, tidx, percur, syn_del_idx, all_new_edges, per_mtype_dict>>

\* Lines 182-184 without the test of line 183.
AssignDelaysAlways ==
    /\ err' = err
    /\ pc = "delays"
    /\ edges_table' \in assign_delays_from_model(d_model, edges_table, src_new,
                                                 src_syn_idx, syn_sel_idx)
    /\ IF tidx < Len(tgt_node_ids)
       THEN tidx' = tidx + 1 /\ pc' = "prob"
       ELSE tidx' = tidx /\ pc' = "reconcile"
    /\ UNCHANGED <<driver, config, percur, syn_del_idx, all_new_edges, per_mtype_dict,
                   stats_dict>>

\* Lines 182-184 followed by a return from the loop.
AssignDelaysAndLeave ==
    /\ err' = err
    /\ pc = "delays"
    /\ IF d_model # "none"
       THEN edges_table' \in assign_delays_from_model(d_model, edges_table, src_new,
                                                      src_syn_idx, syn_sel_idx)
       ELSE UNCHANGED edges_table
    /\ tidx' = tidx /\ pc' = "reconcile"
    /\ UNCHANGED <<driver, config, percur, syn_del_idx, all_new_edges, per_mtype_dict,
                   stats_dict>>

AssignDelays ==
    /\ err' = err
    /\ pc = "delays"
    /\ IF d_model # "none"
       THEN edges_table' \in assign_delays_from_model(d_model, edges_table, src_new,
                                                      src_syn_idx, syn_sel_idx)
       ELSE UNCHANGED edges_table
    /\ IF tidx < Len(tgt_node_ids)
       THEN tidx' = tidx + 1 /\ pc' = "prob"
       ELSE tidx' = tidx /\ pc' = "reconcile"
    /\ UNCHANGED <<driver, config, percur, syn_del_idx, all_new_edges, per_mtype_dict,
                   stats_dict>>

\* --------------------------------------------- lines 186-202: reconciliation
\* Lines 187-188.
\* Line 188 selecting the marked rows, without the guard of line 187.
DeleteUnusedMarked(table, del) == Filter(table, del)
DeleteUnused(table, del) ==
    IF \E i \in DOMAIN del : del[i]
    THEN Filter(table, [i \in DOMAIN del |-> ~del[i]])
    ELSE table

RowLeq(a, b) == a.tgt < b.tgt \/ (a.tgt = b.tgt /\ a.src <= b.src)
RECURSIVE InsertSorted(_, _)
InsertSorted(s, r) ==
    IF s = <<>> THEN <<r>>
    ELSE IF RowLeq(s[Len(s)], r) THEN Append(s, r)
    ELSE Append(InsertSorted(SubSeq(s, 1, Len(s) - 1), r), s[Len(s)])
\* Variants of the two reconciliation steps that a slip in the call would give:
\* sorting on the target column alone, and leaving the row labels as they are.
RECURSIVE InsertByTarget(_, _)
InsertByTarget(s, r) ==
    IF s = <<>> THEN <<r>>
    ELSE IF s[Len(s)].tgt <= r.tgt THEN Append(s, r)
    ELSE Append(InsertByTarget(SubSeq(s, 1, Len(s) - 1), r), s[Len(s)])
RECURSIVE sort_values_target_only(_)
sort_values_target_only(t) ==
    IF t = <<>> THEN <<>>
    ELSE InsertByTarget(sort_values_target_only(SubSeq(t, 1, Len(t) - 1)), t[Len(t)])
keep_index(t) == t
RECURSIVE sort_values(_)
\* sort_values(['@target_node', '@source_node']): rows with equal keys keep
\* their order.
sort_values(t) ==
    IF t = <<>> THEN <<>>
    ELSE InsertSorted(sort_values(SubSeq(t, 1, Len(t) - 1)), t[Len(t)])
\* reset_index(drop=True)
reset_index(t) == [i \in DOMAIN t |-> [t[i] EXCEPT !.idx = i - 1]]
\* Lines 192-195 with the new rows assigned, not appended.
AddNewReplacing(table, new) ==
    IF Len(new) > 0 THEN reset_index(sort_values(new)) ELSE table
\* Lines 192-195.
AddNew(table, new) ==
    IF Len(new) > 0 THEN reset_index(sort_values(table \o new)) ELSE table

Reconcile ==
    /\ err' = err
    /\ pc = "reconcile"
    /\ edges_table' = AddNew(DeleteUnused(edges_table, syn_del_idx), all_new_edges)
    /\ pc' = "done"
    /\ UNCHANGED <<driver, config, tidx, percur, syn_del_idx, all_new_edges, per_mtype_dict,
                   stats_dict>>

\* ------------------------------------------------ lines 18-69: apply() as run
\* Calls of apply(): synapse class, percentage, model files ("ok" exists,
\* "missing" does not, "none" is not given) and the split's target ids, a
\* contiguous (possibly empty) chunk of the node ids.
ArgSets ==
    [syn_class : {"EXC", "INH", "GABA"},
     amount_pct : {-50, 0, 50, 100, 150},
     prob_model_file : {"ok", "missing"},
     delay_model_file : {"none", "ok", "missing"},
     split_ids : {a..b : a \in 1..2, b \in 0..NumExc}]

Init ==
    /\ pc = "start"
    /\ err = ""
    /\ tgt_sel = <<>>
    /\ args \in ArgSets
    /\ in_table \in InputTablesOfLen(0) \cup InputTablesOfLen(1)
    /\ edges_table = in_table
    /\ src_node_ids = <<>>
    /\ tgt_node_ids = <<>>
    /\ keep_indegree = FALSE
    /\ p_model = "unloaded"
    /\ d_model = "unloaded"
    /\ tidx = 1
    /\ p_src = <<>>
    /\ syn_sel_idx = <<>> /\ syn_sel_idx_tgt = <<>> /\ num_sel = 0
    /\ src = <<>> /\ src_syn_idx = <<>> /\ src_new = <<>>
    /\ syn_del_idx = <<>>
    /\ all_new_edges = <<>>
    /\ per_mtype_dict = [m \in MTypes |-> NoEntry]
    /\ stats_dict = [k \in StatKeys |-> <<>>]
    /\ NoDriver

rewiring == <<tidx, percur, syn_del_idx, all_new_edges, per_mtype_dict, stats_dict>>

\* Lines 20-28 without the check of line 22.
CheckArgsNoRange ==
    /\ pc = "start"
    /\ IF Len(edges_table) # 0
       THEN pc' = "error" /\ err' = "Initial connectome must be empty!"
       ELSE IF args.syn_class \notin {"EXC", "INH"}
       THEN pc' = "error" /\ err' = "Synapse class not supported!"
       ELSE IF args.prob_model_file = "missing"
       THEN pc' = "error" /\ err' = "Conn. prob. model file not found!"
       ELSE pc' = "delay_model" /\ err' = err
    /\ p_model' = IF pc' = "error" THEN p_model ELSE [order |-> 1, kind |-> "mid"]
    /\ UNCHANGED <<tgt_sel, args, in_table, edges_table, src_node_ids, tgt_node_ids,
                   keep_indegree, d_model, rewiring, driver>>

\* Lines 20-28: the argument checks and the probability model.
CheckArgs ==
    /\ pc = "start"
    /\ IF Len(edges_table) # 0
       THEN pc' = "error" /\ err' = "Initial connectome must be empty!"
       ELSE IF args.syn_class \notin {"EXC", "INH"}
       THEN pc' = "error" /\ err' = "Synapse class not supported!"
       ELSE IF ~(0 <= args.amount_pct /\ args.amount_pct <= 100)
       THEN pc' = "error" /\ err' = "amount_pct out of range!"
       ELSE IF args.prob_model_file = "missing"
       THEN pc' = "error" /\ err' = "Conn. prob. model file not found!"
       ELSE pc' = "delay_model" /\ err' = err
    /\ p_model' = IF pc' = "error" THEN p_model ELSE [order |-> 1, kind |-> "mid"]
    /\ UNCHANGED <<tgt_sel, args, in_table, edges_table, src_node_ids, tgt_node_ids,
                   keep_indegree, d_model, rewiring, driver>>

\* Lines 30-43: the optional delay model.
LoadDelayModel ==
    /\ pc = "delay_model"
    /\ IF args.delay_model_file = "missing"
       THEN pc' = "error" /\ err' = "Delay model file not found!" /\ d_model' = d_model
       ELSE /\ pc' = "sources" /\ err' = err
            /\ IF args.delay_model_file = "none"
               THEN d_model' = "none"
               ELSE d_model' \in DelayModels
    /\ UNCHANGED <<tgt_sel, args, in_table, edges_table, src_node_ids, tgt_node_ids,
                   keep_indegree, p_model, rewiring, driver>>

\* Lines 46-53: the source candidates of the synapse class.
SelectSources ==
    /\ pc = "sources"
    /\ src_node_ids' = SortedSeq({n \in Nodes : synapse_class(n) = args.syn_class})
    /\ IF Len(src_node_ids') > 0
       THEN pc' = "targets" /\ err' = err
       ELSE pc' = "error" /\ err' = "No source nodes found!"
    /\ UNCHANGED <<tgt_sel, args, in_table, edges_table, tgt_node_ids, keep_indegree,
                   p_model, d_model, rewiring, driver>>

\* np.round(x / den) of a non-negative quotient: halves go to the even neighbour.
RoundHalfEven(x, den) ==
    LET q == x \div den
        r == x % den
    IN IF 2 * r < den THEN q
       ELSE IF 2 * r > den THEN q + 1
       ELSE IF q % 2 = 0 THEN q ELSE q + 1
\* Line 58.
num_tgt(amount_pct, n) == RoundHalfEven(amount_pct * n, 100)
\* Line 59: np.random.permutation([True] * k + [False] * (n - k)).
permutation(n, k) == {m \in [1..n -> BOOLEAN] : NumTrue(m) = k}

\* Lines 55-59: the targets of the split and the random selection among them.
SelectTargets ==
    /\ pc = "targets"
    /\ tgt_node_ids' = SortedSeq(Nodes \cap args.split_ids)
    /\ tgt_sel' \in permutation(Len(tgt_node_ids'),
                                 num_tgt(args.amount_pct, Len(tgt_node_ids')))
    /\ pc' = "selected"
    /\ UNCHANGED <<err, args, in_table, edges_table, src_node_ids, keep_indegree,
                   p_model, d_model, rewiring, driver>>

\* Lines 60-62: no target selected. The module binds log, never logging, so the
\* call of line 61 raises NameError and the return of line 62 is not reached.
NothingToWire ==
    /\ pc = "selected"
    /\ NumTrue(tgt_sel) = 0
    /\ pc' = "error"
    /\ err' = "NameError: name 'logging' is not defined"
    /\ UNCHANGED <<tgt_sel, args, in_table, edges_table, src_node_ids, tgt_node_ids,
                   keep_indegree, p_model, d_model, rewiring, driver>>

\* Lines 63-69: the selected targets; apply() returns the table it was given.
ReturnUnwired ==
    /\ pc = "selected"
    /\ NumTrue(tgt_sel) # 0
    /\ tgt_node_ids' = Filter(tgt_node_ids, tgt_sel)
    /\ pc' = "done"
    /\ UNCHANGED <<err, tgt_sel, args, in_table, edges_table, src_node_ids,
                   keep_indegree, p_model, d_model, rewiring, driver>>

Next ==
    \/ CheckArgs
    \/ LoadDelayModel
    \/ SelectSources
    \/ SelectTargets
    \/ NothingToWire
    \/ ReturnUnwired

Spec == Init /\ [][Next]_vars

NextRewire ==
    \/ ComputeProb
    \/ Resample
    \/ ReconcileShrink
    \/ ReconcileEqual
    \/ ReconcileGrow
    \/ Rewire
    \/ AssignDelays
    \/ Reconcile

SpecRewire == InitRewire /\ [][NextRewire]_vars

\* The loop of line 75 entered with every excitatory node selected as a target,
\* free resampling, the constant probability model and no delay model.
InitCache ==
    /\ pc = "prob"
    /\ err = ""
    /\ tgt_sel = <<>>
    /\ args = DefaultArgs
    /\ in_table \in CacheTables
    /\ edges_table = in_table
    /\ src_node_ids = SortedSeq(ExcNodes)
    /\ tgt_node_ids = SortedSeq(ExcNodes)
    /\ keep_indegree \in BOOLEAN
    /\ p_model = [order |-> 1, kind |-> "mid"]
    /\ d_model = "none"
    /\ tidx = 1
    /\ p_src = <<>>
    /\ syn_sel_idx = <<>> /\ syn_sel_idx_tgt = <<>> /\ num_sel = 0
    /\ src = <<>> /\ src_syn_idx = <<>> /\ src_new = <<>>
    /\ syn_del_idx = AllFalse(Len(in_table))
    /\ all_new_edges = <<>>
    /\ per_mtype_dict = [m \in MTypes |-> NoEntry]
    /\ stats_dict = [k \in StatKeys |-> <<>>]
    /\ NoDriver

SpecCache == InitCache /\ [][NextRewire]_vars

\* ------------------------------- manipulation/null_manipulation.py, lines 7-18
\* A Python value that is None, or a table or list.
None == [none |-> TRUE, rows |-> <<>>]
Some(t) == [none |-> FALSE, rows |-> t]
\* apply() with the return statement left out.
apply_without_return(self_table, split_ids, aux_config, kwargs) == None
\* NullManipulation.apply(self, edges_table, split_ids, aux_config, **kwargs)
NullManipulation_apply(self_table, split_ids, aux_config, kwargs) == self_table

\* The calls explored: any edge table or None, any split, with and without an
\* auxiliary config and keyword arguments.
NullArgSets ==
    [split_ids : {None} \cup {Some(SortedSeq(1..b)) : b \in 0..NumExc},
     aux_config : {"None", "config"},
     kwargs : {"none", "manip"}]

InitNull ==
    /\ pc = "start"
    /\ err = ""
    /\ tgt_sel = <<>>
    /\ args \in NullArgSets
    /\ in_table \in {None} \cup {Some(t) : t \in InputTables}
    /\ edges_table = in_table
    /\ src_node_ids = <<>>
    /\ tgt_node_ids = <<>>
    /\ keep_indegree = FALSE
    /\ p_model = "unloaded"
    /\ d_model = "unloaded"
    /\ tidx = 1
    /\ p_src = <<>>
    /\ syn_sel_idx = <<>> /\ syn_sel_idx_tgt = <<>> /\ num_sel = 0
    /\ src = <<>> /\ src_syn_idx = <<>> /\ src_new = <<>>
    /\ syn_del_idx = <<>>
    /\ all_new_edges = <<>>
    /\ per_mtype_dict = [m \in MTypes |-> NoEntry]
    /\ stats_dict = [k \in StatKeys |-> <<>>]
    /\ NoDriver

\* Lines 14-18: the value of edges_table after the step is the value returned.
NullApply ==
    /\ pc = "start"
    /\ edges_table' = NullManipulation_apply(edges_table, args.split_ids,
                                             args.aux_config, args.kwargs)
    /\ pc' = "done"
    /\ UNCHANGED <<err, tgt_sel, args, in_table, src_node_ids, tgt_node_ids,
                   keep_indegree, p_model, d_model, rewiring, driver>>

NextNull == NullApply

SpecNull == InitNull /\ [][NextNull]_vars

\* ------------------------------------------------ connectome_manipulation.py
\* Largest N_split_nodes of a manipulation config.
MaxSplit == 3
\* Names of edge populations, and the lists c.edges.population_names can be.
PopulationLists ==
    { <<>>, <<"default">>, <<"name1">>, <<"name1", "name2">>,
      <<"name1", "default">> }

\* The connectome of the circuit: every projection once, sorted by (target,
\* source); edges.afferent_edges(split_ids) are its rows onto the split.
CircuitEdges ==
    LET ks == SortedSeq({k \in 1..NumPairs : Projects(PairSrc(k), PairTgt(k))})
    IN [i \in DOMAIN ks |-> InputRow(i, ks[i])]
afferent_edges(split_ids) ==
    SelectSeq(CircuitEdges, LAMBDA r : r.tgt \in Range(split_ids))

\* np.ceil(a / b).astype(int) of non-negative integers.
CeilDiv(a, b) == (a + b - 1) \div b
Min(a, b) == IF a <= b THEN a ELSE b
\* np.cumsum([c] * N_split): one cut point too many.
CutPointsOneMore(len, N_split) == [k \in 1..N_split |-> k * CeilDiv(len, N_split)]
\* Line 59: np.cumsum([np.ceil(len / N_split).astype(int)] * (N_split - 1))
CutPoints(len, N_split) == [k \in 1..(N_split - 1) |-> k * CeilDiv(len, N_split)]
\* ary[a:b] of numpy, 0-based, clipped to the array.
Slice(ary, a, b) ==
    IF Min(a, Len(ary)) >= Min(b, Len(ary)) THEN <<>>
    ELSE SubSeq(ary, Min(a, Len(ary)) + 1, Min(b, Len(ary)))
\* np.split(ary, indices): div_points = [0] + indices + [len(ary)], and the
\* k-th section is ary[div_points[k]:div_points[k + 1]].
np_split(ary, indices) ==
    LET div_points == <<0>> \o indices \o <<Len(ary)>>
    IN [k \in 1..(Len(indices) + 1) |-> Slice(ary, div_points[k], div_points[k + 1])]

\* Lines 31-35 with the first population taken whenever no name is given.
SelectFirstPopulation(names, name) == IF name = "None" THEN names[1] ELSE name
\* Lines 31-35: the population to load.
SelectPopulation(names, name) ==
    IF name = "None"
    THEN IF Len(names) = 1 THEN names[1] ELSE "default"
    ELSE name
\* f'Population "{popul_name}" not found in edges file!'
NotFound(name) == "Population \"" \o name \o "\" not found in edges file!"

\* Line 299.
N_split == IF manip_config.N_split_nodes > 1 THEN manip_config.N_split_nodes ELSE 1

\* A parquet file: absent, left by an earlier run, or written by this run.
Absent == [state |-> "absent", table |-> <<>>]
Old == [state |-> "old", table |-> <<>>]
\* Lines 79-83: the columns renamed and the type id added.
edges_to_parquet(t) ==
    [state |-> "written",
     table |-> [i \in DOMAIN t |->
                  [connected_neurons_pre |-> t[i].src,
                   connected_neurons_post |-> t[i].tgt,
                   synapse_type_id |-> 0]]]

\* What the manipulation modules of a config can return for a table: the
\* table itself, its rows in reverse order, its first row only, or no row.
Reverse(t) == [i \in DOMAIN t |-> t[Len(t) + 1 - i]]
ManipulatedTables(t) == {t, Reverse(t), SubSeq(t, 1, Min(1, Len(t))), <<>>}

\* No check at all in the place of line 336.
not_checked(t) == TRUE
\* edges_table_manip['@target_node'].is_monotonic_increasing
is_monotonic_increasing(t) == \A i \in 1..(Len(t) - 1) : t[i].tgt <= t[i + 1].tgt

\* Lines 91-92 without the removal: the output file stays as it is.
KeepIfExists(f) == f
\* Lines 91-92: the output file is removed if it exists, so it is absent
\* either way.
RemoveIfExists(f) == "absent"

InitMain ==
    /\ pc = "load_circuit"
    /\ err = ""
    /\ manip_config \in [N_split_nodes : 0..MaxSplit,
                         population_name : {"None", "name1"},
                         do_resume : BOOLEAN, keep_parquet : BOOLEAN]
    /\ circuit \in [population_names : PopulationLists,
                    tgt_ids : {SortedSeq(1..n) : n \in 0..NumExc}]
    /\ files0 \in [parquet : [1..MaxSplit -> {Absent, Old}],
                   sonata : {"absent", "old"}]
    /\ files = files0
    /\ popul_name = "None" /\ node_ids_split = <<>> /\ i_split = 0
    /\ parquet_file_list = <<>> /\ N_syn_in = <<>> /\ N_syn_out = <<>>
    /\ edges_table_manip = <<>>
    /\ tgt_sel = <<>>
    /\ args = DefaultArgs
    /\ in_table = <<>>
    /\ edges_table = <<>>
    /\ src_node_ids = <<>>
    /\ tgt_node_ids = <<>>
    /\ keep_indegree = FALSE
    /\ p_model = "unloaded"
    /\ d_model = "unloaded"
    /\ tidx = 1
    /\ p_src = <<>>
    /\ syn_sel_idx = <<>> /\ syn_sel_idx_tgt = <<>> /\ num_sel = 0
    /\ src = <<>> /\ src_syn_idx = <<>> /\ src_new = <<>>
    /\ syn_del_idx = <<>>
    /\ all_new_edges = <<>>
    /\ per_mtype_dict = [m \in MTypes |-> NoEntry]
    /\ stats_dict = [k \in StatKeys |-> <<>>]

\* The variables of apply(), which no step of main() below touches.
wiring == <<tgt_sel, args, in_table, src_node_ids, tgt_node_ids, keep_indegree,
            p_model, d_model, rewiring>>

\* load_circuit, lines 23-61, as main() calls it at line 302.
LoadCircuit ==
    /\ pc = "load_circuit"
    /\ LET names == circuit.population_names
           name == SelectPopulation(names, manip_config.population_name)
       IN IF Len(names) = 0
          THEN /\ pc' = "error" /\ err' = "No edge population found!"
               /\ UNCHANGED <<popul_name, node_ids_split>>
          ELSE IF name \notin Range(names)
          THEN /\ pc' = "error" /\ err' = NotFound(name)
               /\ UNCHANGED <<popul_name, node_ids_split>>
          ELSE /\ popul_name' = name
               /\ node_ids_split' =
                    np_split(circuit.tgt_ids, CutPoints(Len(circuit.tgt_ids), N_split))
               /\ pc' = "split" /\ err' = err
    /\ UNCHANGED <<wiring, edges_table, manip_config, circuit, files0, files, i_split,
                   parquet_file_list, N_syn_in, N_syn_out, edges_table_manip>>

\* Lines 322-325 without line 343: a skipped split is not listed.
SkipSplitUnlisted ==
    /\ pc = "split"
    /\ i_split < Len(node_ids_split)
    /\ manip_config.do_resume /\ files.parquet[i_split + 1].state # "absent"
    /\ i_split' = i_split + 1
    /\ UNCHANGED <<pc, err, wiring, edges_table, manip_config, circuit, files0, files,
                   popul_name, node_ids_split, parquet_file_list, N_syn_in, N_syn_out,
                   edges_table_manip>>

\* Lines 322-325 and 343: the parquet file of the split exists and do_resume
\* is set.
SkipSplit ==
    /\ pc = "split"
    /\ i_split < Len(node_ids_split)
    /\ manip_config.do_resume /\ files.parquet[i_split + 1].state # "absent"
    /\ parquet_file_list' = Append(parquet_file_list, i_split + 1)
    /\ i_split' = i_split + 1
    /\ UNCHANGED <<pc, err, wiring, edges_table, manip_config, circuit, files0, files,
                   popul_name, node_ids_split, N_syn_in, N_syn_out, edges_table_manip>>

\* Lines 326-331: the edges onto the split are loaded.
LoadEdges ==
    /\ pc = "split"
    /\ i_split < Len(node_ids_split)
    /\ ~(manip_config.do_resume /\ files.parquet[i_split + 1].state # "absent")
    /\ edges_table' = afferent_edges(node_ids_split[i_split + 1])
    /\ N_syn_in' = Append(N_syn_in, Len(edges_table'))
    /\ pc' = "manipulate"
    /\ UNCHANGED <<err, wiring, manip_config, circuit, files0, files, popul_name,
                   node_ids_split, i_split, parquet_file_list, N_syn_out,
                   edges_table_manip>>

\* Lines 334-335 (apply_manipulation, lines 64-76).
ApplyManipulation ==
    /\ pc = "manipulate"
    /\ edges_table_manip' \in ManipulatedTables(edges_table)
    /\ pc' = "check"
    /\ UNCHANGED <<err, wiring, edges_table, manip_config, circuit, files0, files,
                   popul_name, node_ids_split, i_split, parquet_file_list, N_syn_in,
                   N_syn_out>>

\* Lines 336-338.
CheckMonotonic ==
    /\ pc = "check"
    /\ IF is_monotonic_increasing(edges_table_manip)
       THEN /\ N_syn_out' = Append(N_syn_out, Len(edges_table_manip))
            /\ pc' = "write" /\ err' = err
       ELSE /\ pc' = "error" /\ err' = "Target nodes not monotonically increasing!"
            /\ UNCHANGED N_syn_out
    /\ UNCHANGED <<wiring, edges_table, manip_config, circuit, files0, files,
                   popul_name, node_ids_split, i_split, parquet_file_list, N_syn_in,
                   edges_table_manip>>

\* Lines 340-343.
WriteParquet ==
    /\ pc = "write"
    /\ files' = [files EXCEPT !.parquet[i_split + 1] = edges_to_parquet(edges_table_manip)]
    /\ parquet_file_list' = Append(parquet_file_list, i_split + 1)
    /\ i_split' = i_split + 1
    /\ pc' = "split"
    /\ UNCHANGED <<err, wiring, edges_table, manip_config, circuit, files0, popul_name,
                   node_ids_split, N_syn_in, N_syn_out, edges_table_manip>>

\* Lines 345-349 and 88-92: the loop has ended, parquet_to_sonata is entered
\* and removes an output file that exists.
RemoveOutput ==
    /\ pc = "split"
    /\ i_split = Len(node_ids_split)
    /\ files' = [files EXCEPT !.sonata = RemoveIfExists(@)]
    /\ pc' = "popen"
    /\ UNCHANGED <<err, wiring, edges_table, manip_config, circuit, files0, popul_name,
                   node_ids_split, i_split, parquet_file_list, N_syn_in, N_syn_out,
                   edges_table_manip>>

\* Lines 94-99: the converter runs and has or has not left an output file.
RunConversion ==
    /\ pc = "popen"
    /\ \E created \in BOOLEAN :
         /\ files' = IF created THEN [files EXCEPT !.sonata = "new"] ELSE files
         /\ IF files'.sonata # "absent"
            THEN pc' = "cleanup" /\ err' = err
            ELSE /\ pc' = "error"
                 /\ err' = "Parquet conversion error - SONATA file not created successfully!"
    /\ UNCHANGED <<wiring, edges_table, manip_config, circuit, files0, popul_name,
                   node_ids_split, i_split, parquet_file_list, N_syn_in, N_syn_out,
                   edges_table_manip>>

\* Lines 101-105.
DeleteParquet ==
    /\ pc = "cleanup"
    /\ files' = IF manip_config.keep_parquet THEN files
                ELSE [files EXCEPT !.parquet =
                        [i \in DOMAIN @ |->
                           IF i \in Range(parquet_file_list) THEN Absent ELSE @[i]]]
    /\ pc' = "done"
    /\ UNCHANGED <<err, wiring, edges_table, manip_config, circuit, files0, popul_name,
                   node_ids_split, i_split, parquet_file_list, N_syn_in, N_syn_out,
                   edges_table_manip>>

NextMain ==
    \/ LoadCircuit
    \/ SkipSplit
    \/ LoadEdges
    \/ ApplyManipulation
    \/ CheckMonotonic
    \/ WriteParquet
    \/ RemoveOutput
    \/ RunConversion
    \/ DeleteParquet

SpecMain == InitMain /\ [][NextMain]_vars

\* ===================================================================== claims
Done == pc = "done"
Appended == Len(all_new_edges) > 0
Deleted == \E i \in DOMAIN syn_del_idx : syn_del_idx[i]
TgtNonDecreasing(t) == \A i \in 1..(Len(t) - 1) : t[i].tgt <= t[i + 1].tgt
SortedByTgtSrc(t) == \A i \in 1..(Len(t) - 1) : RowLeq(t[i], t[i + 1])
DenseIndex(t) == \A i \in DOMAIN t : t[i].idx = i - 1
Labels(t) == [i \in DOMAIN t |-> t[i].idx]

InDegree(t, n) == Cardinality({t[i].src : i \in {j \in DOMAIN t : t[j].tgt = n}})
\* The k-th selected target has been rewired.
Rewired(k) == k < tidx \/ (k = tidx /\ pc \in {"delays", "reconcile", "done"})

OnlyRelabelled ==
    /\ Len(edges_table) = Len(in_table)
    /\ \A i \in DOMAIN in_table :
         /\ edges_table[i].idx = in_table[i].idx
         /\ edges_table[i].tgt = in_table[i].tgt
         /\ edges_table[i].pos = in_table[i].pos
         /\ edges_table[i].prop = in_table[i].prop
\* No target took the branch of line 121 or of line 127: both record their
\* counts in stats_dict.
EqualForEveryTarget ==
    stats_dict["num_conn_removed"] = <<>> /\ stats_dict["num_conn_added"] = <<>>

SameConn(a, b) == a.src = b.src /\ a.tgt = b.tgt
\* The rows of the newly synthesized connections: the appended rows and, once
\* they are merged, the rows of the table that share their (source, target).
NewConnRows ==
    Range(all_new_edges) \cup
    (IF Done
     THEN {r \in Range(edges_table) : \E a \in Range(all_new_edges) : SameConn(a, r)}
     ELSE {})

DelayBound(r) == r.delay >= DelayMin(d_model, Abs(r.pos - NodePos(r.src)))
\* Row i of the table has been through the call of line 184.
DelayWritten(i) ==
    /\ syn_sel_idx_src[i] /\ ~syn_del_idx[i]
    /\ \E k \in DOMAIN tgt_node_ids :
         /\ edges_table[i].tgt = tgt_node_ids[k]
         /\ k < tidx \/ (k = tidx /\ pc = "reconcile")

OneSynapsePerTarget ==
    /\ \A n \in Range(tgt_node_ids) :
         Cardinality({i \in DOMAIN in_table : in_table[i].tgt = n}) = 1
    /\ \A i \in DOMAIN in_table : in_table[i].tgt \in Range(tgt_node_ids)
NumConn(t) == Cardinality({<<t[i].src, t[i].tgt>> : i \in DOMAIN t})

C8_ZeroTargetsNoOp ==
    [][(pc = "selected" /\ NumTrue(tgt_sel) = 0) =>
         (pc' = "done" /\ err' = "" /\ edges_table' = in_table)]_vars

\* The arguments one of the checks of lines 20-25 rejects.
RejectedArgs ==
    \/ Len(in_table) # 0
    \/ args.syn_class \notin {"EXC", "INH"}
    \/ args.amount_pct < 0 \/ args.amount_pct > 100
    \/ args.prob_model_file = "missing"
InputErrors ==
    {"Initial connectome must be empty!", "Synapse class not supported!",
     "amount_pct out of range!", "Conn. prob. model file not found!",
     "Delay model file not found!"}

\* C11: once the checks of lines 20-32 have run, a non-empty table, a synapse
\* class other than EXC and INH, an amount_pct outside [0, 100], a missing
\* probability-model file or a missing delay-model file has ended apply with
\* its error, no source or target was selected, and the table is the input.
C11_InputErrorsAbort ==
    /\ (pc # "start" /\ RejectedArgs) =>
         /\ pc = "error" /\ err \in InputErrors \ {"Delay model file not found!"}
         /\ edges_table = in_table /\ src_node_ids = <<>> /\ tgt_sel = <<>>
    /\ (pc \notin {"start", "delay_model"} /\ args.delay_model_file = "missing") =>
         /\ pc = "error" /\ err \in InputErrors
         /\ edges_table = in_table /\ src_node_ids = <<>> /\ tgt_sel = <<>>
    /\ (pc = "error" /\ err \in InputErrors) =>
         (RejectedArgs \/ args.delay_model_file = "missing")

\* A call whose only fault is the missing delay-model file was rejected.
C11_DelayFileMissing ==
    /\ pc = "error" /\ err = "Delay model file not found!"
    /\ ~RejectedArgs

\* The fixed-in-degree draw of line 114 cannot be made.
Shortage ==
    \/ Len(src_node_ids) < Len(src)
    \/ Positive(src_node_ids, p_src) = {}
    \/ Cardinality(Positive(src_node_ids, p_src)) < Len(src)
DrawErrors == {"Not enough source neurons available for rewiring!", "ValueError"}
Distinct(s) == \A i, j \in DOMAIN s : i # j => s[i] # s[j]

PoolBy(labels, v) ==
    [i \in DOMAIN in_table |->
       syn_sel_idx_type[i] /\
       in_table[i].tgt \in {tgt_node_ids[k] : k \in {j \in DOMAIN tgt_node_ids : labels[j] = v}}]
NoDonors == "No synapses to sample connection property values from!"

\* C13: the donor pool kept for an m-type is the rows onto the selected
\* targets of that m-type when there are any, else the rows onto the selected
\* targets of the layer of the target that asked, and it is never empty; rows
\* are synthesized only from such a pool; and the run has failed with the
\* donor error exactly with both pools of the current target empty and no
\* pool kept for it.
C13_DonorsByMtypeThenLayer ==
    /\ \A m \in MTypes :
         per_mtype_dict[m].cached =>
           /\ NumTrue(per_mtype_dict[m].syn_sel_idx_mtype) > 0
           /\ IF NumTrue(PoolBy(tgt_mtypes, m)) > 0
              THEN per_mtype_dict[m].syn_sel_idx_mtype = PoolBy(tgt_mtypes, m)
              ELSE \E k \in DOMAIN tgt_node_ids :
                     /\ tgt_mtypes[k] = m
                     /\ per_mtype_dict[m].syn_sel_idx_mtype =
                          PoolBy(tgt_layers, tgt_layers[k])
    /\ \A r \in Range(all_new_edges) : per_mtype_dict[mtype(r.tgt)].cached
    /\ err = NoDonors =>
         /\ pc = "error"
         /\ NumTrue(PoolBy(tgt_mtypes, tgt_mtypes[tidx])) = 0
         /\ NumTrue(PoolBy(tgt_layers, tgt_layers[tidx])) = 0
         /\ ~per_mtype_dict[tgt_mtypes[tidx]].cached

\* Rows were synthesized from a pool found by layer, none existing by m-type.
C13_LayerFallbackUsed ==
    /\ Done /\ Appended
    /\ \E m \in MTypes :
         /\ per_mtype_dict[m].cached
         /\ NumTrue(PoolBy(tgt_mtypes, m)) = 0

\* C14: given a delay model, assign_delays_from_model returns the table it
\* was given, and does return, when the new sources are empty, when the
\* synapse-to-connection mapping is empty, or when no synapse is selected;
\* stated for the table of every state before reconciliation, each of the
\* three alone and as the loop meets them at line 184.
C14_EmptyDelayCallIsNoOp ==
    (d_model \in DelayModels /\ ~Done) =>
      /\ assign_delays_from_model(d_model, edges_table, <<>>, <<0>>,
                                  AllTrue(Len(edges_table))) = {edges_table}
      /\ assign_delays_from_model(d_model, edges_table, src_node_ids, <<>>,
                                  AllTrue(Len(edges_table))) = {edges_table}
      /\ assign_delays_from_model(d_model, edges_table, src_node_ids, <<0>>,
                                  AllFalse(Len(edges_table))) = {edges_table}
      /\ (pc = "delays" /\ (Len(src_new) = 0 \/ Len(src_syn_idx) = 0
                             \/ NumTrue(syn_sel_idx) = 0)) =>
           assign_delays_from_model(d_model, edges_table, src_new, src_syn_idx,
                                    syn_sel_idx) = {edges_table}

\* With a delay model, the loop went on after the call of line 184 for a
\* target whose rows had all been marked for deletion.
C14_CalledWithNothingSelected ==
    /\ d_model \in DelayModels /\ pc = "prob" /\ tidx = 2
    /\ Len(src_new) = 0 /\ Len(src) > 0
    /\ Deleted

Count(s, v) == Cardinality({i \in DOMAIN s : s[i] = v})
\* Two sequences hold the same values the same number of times.
SameBag(a, b) == \A v \in Range(a) \cup Range(b) : Count(a, v) = Count(b, v)
\* The columns of a table: all of them, and all but the source.
Cols(t) == [i \in DOMAIN t |-> <<t[i].src, t[i].tgt, t[i].pos, t[i].prop, t[i].delay>>]
ColsButSrc(t) == [i \in DOMAIN t |-> <<t[i].tgt, t[i].pos, t[i].prop, t[i].delay>>]
Kept == [i \in DOMAIN syn_del_idx |-> ~syn_del_idx[i]]

JustShrunk == pc = "rewire" /\ Len(src) > Len(src_new)
\* The rows of the current target that come from a source candidate.
OfTarget(i) == edges_table[i].tgt = tgt /\ syn_sel_idx_src[i]
Last(s) == s[Len(s)]

RankAmongSrc(x) == Cardinality({y \in Range(src) : y < x})

OffBatch(t) == SelectSeq(t, LAMBDA r : r.tgt \notin Range(tgt_node_ids))

RECURSIVE SumSeq(_)
SumSeq(s) == IF s = <<>> THEN 0 ELSE Head(s) + SumSeq(Tail(s))
\* The input rows line 178 has written: those of a selected target, from a
\* source candidate, not marked for deletion.
RelabelledRows ==
    {i \in DOMAIN in_table :
       /\ in_table[i].tgt \in Range(tgt_node_ids)
       /\ syn_sel_idx_src[i] /\ ~syn_del_idx[i]}

StrictlyAscending(s) == \A i \in 1..(Len(s) - 1) : s[i] < s[i + 1]

Grown == \E r \in Range(all_new_edges) : r.tgt = tgt

ClassRow(r) == synapse_class(r.src) = args.syn_class
\* The sources synthesized so far for the k-th target.
GenSources(k) ==
    {r.src : r \in {x \in Range(all_new_edges) : x.tgt = tgt_node_ids[k]}}
\* The sources of the selected class that the batch connects to the k-th
\* target: in the returned table; before the return, in the rows not marked
\* for deletion and the rows synthesized.
ClassSources(k) ==
    IF Done
    THEN {r.src : r \in {x \in Range(edges_table) :
                           x.tgt = tgt_node_ids[k] /\ ClassRow(x)}}
    ELSE {edges_table[i].src :
            i \in {j \in DOMAIN edges_table :
                     /\ edges_table[j].tgt = tgt_node_ids[k]
                     /\ ClassRow(edges_table[j]) /\ ~syn_del_idx[j]}}
         \cup GenSources(k)

C26_ReturnsWhatItWasGiven ==
    [][pc = "start" =>
         /\ edges_table' = edges_table
         /\ edges_table' = in_table
         /\ UNCHANGED <<args, in_table, driver>>]_vars

\* apply(None, None, None, **manip_config) has returned.
C26_CalledWithNone ==
    /\ Done /\ in_table = None
    /\ args.split_ids = None /\ args.aux_config = "None"
    /\ args.kwargs = "manip"

RECURSIVE Flatten(_)
\* The concatenation of a sequence of sequences.
Flatten(ss) == IF ss = <<>> THEN <<>> ELSE Head(ss) \o Flatten(Tail(ss))
\* load_circuit has returned.
Loaded == node_ids_split # <<>>

\* C23: load_circuit returns exactly N_split splits; their concatenation is the
\* sequence of target ids it split, so that the order is kept and every id is
\* in exactly one split; and no two splits share an id.
C23_SplitsPartitionTargets ==
    Loaded =>
      /\ Len(node_ids_split) = N_split
      /\ Flatten(node_ids_split) = circuit.tgt_ids
      /\ \A i, j \in DOMAIN node_ids_split :
           i # j => Range(node_ids_split[i]) \cap Range(node_ids_split[j]) = {}

\* Two target ids were split three ways.
C23_MoreSplitsThanTargets ==
    /\ Loaded
    /\ N_split = 3 /\ Len(circuit.tgt_ids) = 2

\* C24: load_circuit on a circuit without edge population raises nothing and
\* returns None as the population name (and for the edges and their file).
C24_LoadsWithoutEdgePopulation ==
    (pc # "load_circuit" /\ Len(circuit.population_names) = 0) =>
      (pc # "error" /\ popul_name = "None")

\* C25: with no population name given, load_circuit selects the only edge
\* population when there is exactly one; with several it selects "default"
\* when one of them has that name and otherwise fails with the error that
\* "default" is not found.
C25_DefaultPopulation ==
    (pc # "load_circuit" /\ manip_config.population_name = "None"
       /\ Len(circuit.population_names) > 0) =>
      IF Len(circuit.population_names) = 1
      THEN popul_name = circuit.population_names[1]
      ELSE IF "default" \in Range(circuit.population_names)
      THEN popul_name = "default"
      ELSE /\ pc = "error"
           /\ err = "Population \"default\" not found in edges file!"
           /\ popul_name = "None"

\* Of two populations the one named "default" was loaded and the run ended.
C25_DefaultAmongSeveral ==
    /\ Done
    /\ manip_config.population_name = "None"
    /\ Len(circuit.population_names) = 2
    /\ popul_name = "default"

NotMonotonic == "Target nodes not monotonically increasing!"
\* The target column of a parquet file is non-decreasing.
PostNonDecreasing(f) ==
    \A k \in 1..(Len(f.table) - 1) :
      f.table[k].connected_neurons_post <= f.table[k + 1].connected_neurons_post

\* C22: every parquet file written by this run holds a table whose target
\* column is non-decreasing; the write step is reached only with such a
\* table; and when the run has aborted on the check of line 336, the file of
\* the current split is as it was when main started, the split is not listed,
\* and the SONATA file has not been touched.
C22_WrittenOnlyIfMonotonic ==
    /\ \A i \in DOMAIN files.parquet :
         files.parquet[i].state = "written" => PostNonDecreasing(files.parquet[i])
    /\ pc = "write" => TgtNonDecreasing(edges_table_manip)
    /\ (pc = "error" /\ err = NotMonotonic) =>
         /\ ~TgtNonDecreasing(edges_table_manip)
         /\ files.parquet[i_split + 1] = files0.parquet[i_split + 1]
         /\ Len(parquet_file_list) = i_split
         /\ files.sonata = files0.sonata

\* The run aborted on a split whose parquet file and SONATA file existed.
C22_AbortedBesideOldFiles ==
    /\ pc = "error" /\ err = NotMonotonic
    /\ files.parquet[i_split + 1].state = "old"
    /\ files.sonata = "old"

ConversionError == "Parquet conversion error - SONATA file not created successfully!"

\* C27: when the converter is started there is no output file; the steps after
\* the conversion are reached only with the output file the converter wrote;
\* and when the conversion error has been raised there is no output file, and
\* every parquet file handed to the conversion is still there.
C27_ConversionFailsClean ==
    /\ pc = "popen" => files.sonata = "absent"
    /\ pc \in {"cleanup", "done"} => files.sonata = "new"
    /\ (pc = "error" /\ err = ConversionError) =>
         /\ files.sonata = "absent"
         /\ \A i \in Range(parquet_file_list) : files.parquet[i].state # "absent"

\* The conversion failed where an output file had existed and the parquet
\* files were to be deleted.
C27_FailedOverStaleOutput ==
    /\ pc = "error" /\ err = ConversionError
    /\ files0.sonata = "old"
    /\ ~manip_config.keep_parquet

\* The split's parquet file existed when main started and do_resume is set.
Resumed(i) == manip_config.do_resume /\ files0.parquet[i].state # "absent"
Processed(n) == {i \in 1..n : ~Resumed(i)}

\* C29: from the return of load_circuit to the end of the conversion, the
\* list of parquet files names the completed splits, each once and in split
\* order; a completed split whose file existed under do_resume has its file
\* untouched, every other completed split has the file this run wrote; as
\* many tables have been loaded and as many manipulated tables counted as
\* there are splits that were not skipped; and the conversion is entered with
\* all N_split splits listed.
C29_ResumeSkipsWholeSplits ==
    (Loaded /\ pc \in {"split", "manipulate", "check", "write", "popen", "cleanup"}) =>
      /\ parquet_file_list = [i \in 1..i_split |-> i]
      /\ \A i \in 1..i_split :
           IF Resumed(i) THEN files.parquet[i] = files0.parquet[i]
           ELSE files.parquet[i].state = "written"
      /\ Len(N_syn_in) = Cardinality(Processed(i_split))
                         + (IF pc \in {"manipulate", "check", "write"} THEN 1 ELSE 0)
      /\ Len(N_syn_out) = Cardinality(Processed(i_split))
                          + (IF pc = "write" THEN 1 ELSE 0)
      /\ pc \in {"popen", "cleanup"} => i_split = N_split

\* The conversion was entered after a skipped split and a processed split.
C29_SkippedOneProcessedNext ==
    /\ pc = "popen" /\ manip_config.do_resume
    /\ \E i, j \in 1..i_split : i < j /\ Resumed(i) /\ ~Resumed(j)

====
